---- MODULE Spec2Model ----
(***************************************************************************)
(* Model of circuit_knitting/cutting/cutting_experiments.py.               *)
(*                                                                         *)
(* A state is one call of one of the module's operations: `input` is the   *)
(* call and its arguments, `random_samples` the mapping the Weight Sampler *)
(* (generate_qpd_weights) gives when the call reaches it, `heap` the       *)
(* circuit objects that exist (a reference is an index into it), `result`  *)
(* what the call returned or raised together with its locals, and `trace`  *)
(* the collaborators the call invoked, in order.                           *)
(*                                                                         *)
(* Python values: a list or tuple is a sequence, indices are kept 0-based  *)
(* as in the source (element i of a list is seq[i+1]); a float is modelled *)
(* as an exact fraction [num, den].  A dict is a function whose domain is  *)
(* its key set, iterated in the order of LabelOrder.                       *)
(***************************************************************************)
EXTENDS Integers, Sequences, FiniteSets, TLC

VARIABLES input, random_samples, heap, result, trace, pc

vars == <<input, random_samples, heap, result, trace, pc>>

\* ------------------------------------------------------------------ bounds
MaxInstr == 2        \* instructions in an input circuit
MaxSamples == 3      \* distinct JointChoices in one Weight Sampler mapping
MaxRedundancy == 2   \* occurrence count of one JointChoice
MaxGroups == 2       \* MeasurementGroups of one observable collection
MaxQubits == 2       \* qubits of a circuit handed to the measurement append

\* ------------------------------------------------------------- Python bits
RECURSIVE SumSeq(_)
SumSeq(s) == IF s = << >> THEN 0 ELSE Head(s) + SumSeq(Tail(s))

RECURSIVE ProdSeq(_)
ProdSeq(s) == IF s = << >> THEN 1 ELSE Head(s) * ProdSeq(Tail(s))

Sign(n) == IF n > 0 THEN 1 ELSE IF n < 0 THEN -1 ELSE 0

SeqsUpTo(S, n) == UNION {[1..k -> S] : k \in 0..n}

Range(s) == {s[i] : i \in DOMAIN s}

\* seq[j] of Python: a negative index counts from the end, anything outside
\* -len..len-1 is an IndexError.
InRange(s, j) == j >= -Len(s) /\ j < Len(s)
PyIndex(s, j) == IF j >= 0 THEN s[j + 1] ELSE s[Len(s) + j + 1]

\* ------------------------------------------------------------------- data
\* A QPDBasis: the coefficients of its alternatives and kappa = sum |coeff|.
NoBasis == [kappa |-> 0, coeffs |-> << >>]
BasisPool == { [kappa |-> 3, coeffs |-> <<2, -1>>],
               [kappa |-> 3, coeffs |-> <<-2, 0, 1>>] }
FirstBasis == [kappa |-> 3, coeffs |-> <<2, -1>>]

\* Gate labels are strings, modelled as sequences of characters; NoneLabel is
\* the label None.
NoneLabel == <<"None">>
Digits == {"0", "1", "2"}
DigitVal(c) == CASE c = "0" -> 0 [] c = "1" -> 1 [] c = "2" -> 2

\* One element of circuit.data.  op is the operation's class; basis, label
\* belong to QPD gates, basis_id to a decomposed one, qubit/creg/clbit to the
\* appended rotations and measurements.
Inst(op, basis, label, basis_id, qubit, creg, clbit) ==
    [op |-> op, basis |-> basis, label |-> label, basis_id |-> basis_id,
     qubit |-> qubit, creg |-> creg, clbit |-> clbit]

Gate == Inst("Gate", NoBasis, NoneLabel, -1, -1, -1, -1)
TwoQubitQPDGate(b) == Inst("TwoQubitQPDGate", b, NoneLabel, -1, -1, -1, -1)
SingleQubitQPDGate(b, l) == Inst("SingleQubitQPDGate", b, l, -1, -1, -1, -1)
Sdg(q) == Inst("sdg", NoBasis, NoneLabel, -1, q, -1, -1)
H(q) == Inst("h", NoBasis, NoneLabel, -1, q, -1, -1)
Measure(q, creg, clbit) == Inst("measure", NoBasis, NoneLabel, -1, q, creg, clbit)

\* A QuantumCircuit value.
Circuit(n, data, cregs) == [num_qubits |-> n, data |-> data, cregs |-> cregs]

ClassicalRegister(size, name) == [name |-> name, size |-> size]

\* A CommutingObservableGroup: the x and z bit vectors of its general
\* observable and the sites where that observable is not the identity.
RECURSIVE pauli_indices_from(_, _, _)
pauli_indices_from(x, z, i) ==
    IF i > Len(x) THEN << >>
    ELSE (IF x[i] \/ z[i] THEN <<i - 1>> ELSE << >>) \o pauli_indices_from(x, z, i + 1)

CommutingObservableGroup(x, z) ==
    [num_qubits |-> Len(x), x |-> x, z |-> z,
     pauli_indices |-> pauli_indices_from(x, z, 1)]

Raise(err, h) == [err |-> err, heap |-> h, ref |-> 0]
Return(h, ref) == [err |-> "None", heap |-> h, ref |-> ref]

\* ------------------------------------------- _append_measurement_circuit
\* qubit_locations is [is_none, locs].
resolve_qubit_locations(qc, cog, qubit_locations) ==
    IF qubit_locations.is_none
    THEN IF qc.num_qubits # cog.num_qubits
         THEN [err |-> "ValueError", locs |-> << >>]
         ELSE [err |-> "None", locs |-> [i \in 1..cog.num_qubits |-> i - 1]]
    ELSE IF Len(qubit_locations.locs) # cog.num_qubits
         THEN [err |-> "ValueError", locs |-> << >>]
         ELSE [err |-> "None", locs |-> qubit_locations.locs]

\* "if not inplace: qc = qc.copy()": the heap and the reference worked on.
working_copy_inplace(h, qc, inplace) == [heap |-> h, ref |-> qc]
working_copy(h, qc, inplace) ==
    IF ~inplace THEN [heap |-> Append(h, h[qc]), ref |-> Len(h) + 1]
    ELSE [heap |-> h, ref |-> qc]

\* The instructions one measured site gets: clbit is its position in
\* cog.pauli_indices, subqubit its site, actual_qubit its qubit in the circuit.
site_instructions_bit_by_site(cog, creg, clbit, subqubit, actual_qubit) ==
    (IF cog.x[subqubit + 1]
     THEN (IF cog.z[subqubit + 1] THEN <<Sdg(actual_qubit)>> ELSE << >>)
          \o <<H(actual_qubit)>>
     ELSE << >>)
    \o <<Measure(actual_qubit, creg, subqubit)>>
site_instructions(cog, creg, clbit, subqubit, actual_qubit) ==
    (IF cog.x[subqubit + 1]
     THEN (IF cog.z[subqubit + 1] THEN <<Sdg(actual_qubit)>> ELSE << >>)
          \o <<H(actual_qubit)>>
     ELSE << >>)
    \o <<Measure(actual_qubit, creg, clbit)>>

\* The loop over cog.pauli_indices; k is the 1-based position of the next
\* site.  A gate on a qubit the circuit does not have raises CircuitError and
\* leaves what was appended so far.
RECURSIVE measure_sites(_, _, _, _, _)
measure_sites(circ, cog, locs, creg, k) ==
    IF k > Len(cog.pauli_indices) THEN [err |-> "None", circ |-> circ]
    ELSE LET subqubit == cog.pauli_indices[k]
             actual_qubit == locs[subqubit + 1]
         IN IF actual_qubit >= circ.num_qubits
            THEN [err |-> "CircuitError", circ |-> circ]
            ELSE measure_sites(
                     [circ EXCEPT !.data =
                         @ \o site_instructions(cog, creg, k - 1, subqubit, actual_qubit)],
                     cog, locs, creg, k + 1)

append_measurement_circuit(h, qc, cog, qubit_locations, inplace) ==
    LET loc == resolve_qubit_locations(h[qc], cog, qubit_locations) IN
    IF loc.err # "None" THEN Raise(loc.err, h)
    ELSE LET w == working_copy(h, qc, inplace)
             obs_creg == ClassicalRegister(Len(cog.pauli_indices), "observable_measurements")
             names == {w.heap[w.ref].cregs[i].name : i \in DOMAIN w.heap[w.ref].cregs}
         IN IF obs_creg.name \in names THEN Raise("CircuitError", w.heap)
            ELSE LET withreg == [w.heap[w.ref] EXCEPT !.cregs = Append(@, obs_creg)]
                     m == measure_sites(withreg, cog, loc.locs, Len(withreg.cregs), 1)
                     h2 == [w.heap EXCEPT ![w.ref] = m.circ]
                 IN IF m.err # "None" THEN Raise(m.err, h2) ELSE Return(h2, w.ref)

\* ---------------------------------------------------------- cut collection
\* label.split("_")[-1]: the characters after the last underscore.
RECURSIVE last_segment(_)
last_segment(text) ==
    IF text = << >> THEN << >>
    ELSE IF "_" \in Range(text)
         THEN last_segment(Tail(text))
         ELSE text

RECURSIVE digits_value(_, _)
digits_value(ds, acc) ==
    IF ds = << >> THEN acc ELSE digits_value(Tail(ds), 10 * acc + DigitVal(Head(ds)))

\* int(s): an optional sign and at least one digit, anything else is a
\* ValueError.
is_int_literal(s) ==
    LET body == IF s # << >> /\ Head(s) \in {"-", "+"} THEN Tail(s) ELSE s
    IN body # << >> /\ Range(body) \subseteq Digits
int_value(s) ==
    IF Head(s) = "-" THEN 0 - digits_value(Tail(s), 0)
    ELSE IF Head(s) = "+" THEN digits_value(Tail(s), 0)
    ELSE digits_value(s, 0)

\* int(inst.operation.label.split("_")[-1]); a label of None has no split
\* (AttributeError), which the caller turns into the same ValueError.
has_decomp_id(label) == label # NoneLabel /\ is_int_literal(last_segment(label))
decomp_id_of(label) == int_value(last_segment(label))

\* The inner loop of _get_mapping_ids_by_partition over circ.data[i..].
RECURSIVE scan_partition(_, _)
scan_partition(data, i) ==
    IF i > Len(data)
    THEN [err |-> "None", qpd_gate_ids |-> << >>, map_ids |-> << >>]
    ELSE IF data[i].op = "SingleQubitQPDGate"
         THEN IF ~has_decomp_id(data[i].label)
              THEN [err |-> "ValueError", qpd_gate_ids |-> << >>, map_ids |-> << >>]
              ELSE LET more == scan_partition(data, i + 1) IN
                   [err |-> more.err,
                    qpd_gate_ids |-> <<(<<i - 1>>)>> \o more.qpd_gate_ids,
                    map_ids |-> <<decomp_id_of(data[i].label)>> \o more.map_ids]
         ELSE scan_partition(data, i + 1)

LabelOrder == <<"A", "B">>
PartitionLabels == Range(LabelOrder)
keys_in_order(keys) == SelectSeq(LabelOrder, LAMBDA l : l \in keys)

get_mapping_ids_by_partition(h, circuits) ==
    LET scans == [label \in DOMAIN circuits |-> scan_partition(h[circuits[label]].data, 1)]
        failed == \E label \in DOMAIN circuits : scans[label].err # "None"
    IN [err |-> IF failed THEN "ValueError" ELSE "None",
        subcirc_qpd_gate_ids |-> [label \in DOMAIN circuits |-> scans[label].qpd_gate_ids],
        subcirc_map_ids |-> [label \in DOMAIN circuits |-> scans[label].map_ids]]

RECURSIVE sorted_keys(_)
sorted_keys(S) ==
    IF S = {} THEN << >>
    ELSE LET m == CHOOSE x \in S : \A y \in S : x <= y
         IN <<m>> \o sorted_keys(S \ {m})

\* The (decomp_id, basis) assignments to bases_dict, in the order made.
RECURSIVE bases_dict_writes(_, _, _, _)
bases_dict_writes(h, circuits, subcirc_qpd_gate_ids, labels) ==
    IF labels = << >> THEN << >>
    ELSE LET label == Head(labels)
             data == h[circuits[label]].data
             ids == subcirc_qpd_gate_ids[label]
         IN [k \in 1..Len(ids) |->
                [decomp_id |-> decomp_id_of(data[ids[k][1] + 1].label),
                 basis |-> data[ids[k][1] + 1].basis]]
            \o bases_dict_writes(h, circuits, subcirc_qpd_gate_ids, Tail(labels))

get_bases_by_partition(h, circuits, subcirc_qpd_gate_ids) ==
    LET writes == bases_dict_writes(h, circuits, subcirc_qpd_gate_ids,
                                    keys_in_order(DOMAIN subcirc_qpd_gate_ids))
        keys == {writes[k].decomp_id : k \in DOMAIN writes}
        last_write(key) ==
            CHOOSE k \in DOMAIN writes :
                /\ writes[k].decomp_id = key
                /\ \A m \in DOMAIN writes : writes[m].decomp_id = key => m <= k
        order == sorted_keys(keys)
    IN [n \in 1..Len(order) |-> writes[last_write(order[n])].basis]

\* _get_bases over circuit[i..]: the first SingleQubitQPDGate met raises.
RECURSIVE get_bases_skipping_markers(_, _)
get_bases_skipping_markers(data, i) ==
    IF i > Len(data) THEN [err |-> "None", bases |-> << >>, qpd_gate_ids |-> << >>]
    ELSE IF data[i].op = "TwoQubitQPDGate"
         THEN LET more == get_bases_skipping_markers(data, i + 1) IN
              [err |-> more.err,
               bases |-> <<data[i].basis>> \o more.bases,
               qpd_gate_ids |-> <<(<<i - 1>>)>> \o more.qpd_gate_ids]
         ELSE get_bases_skipping_markers(data, i + 1)
RECURSIVE get_bases(_, _)
get_bases(data, i) ==
    IF i > Len(data) THEN [err |-> "None", bases |-> << >>, qpd_gate_ids |-> << >>]
    ELSE IF data[i].op = "SingleQubitQPDGate"
         THEN [err |-> "ValueError", bases |-> << >>, qpd_gate_ids |-> << >>]
         ELSE IF data[i].op = "TwoQubitQPDGate"
              THEN LET more == get_bases(data, i + 1) IN
                   [err |-> more.err,
                    bases |-> IF more.err = "None" THEN <<data[i].basis>> \o more.bases
                              ELSE << >>,
                    qpd_gate_ids |-> IF more.err = "None"
                                     THEN <<(<<i - 1>>)>> \o more.qpd_gate_ids
                                     ELSE << >>]
              ELSE get_bases(data, i + 1)

\* ---------------------------------------------------------- collaborators
\* ObservableCollection(observables).groups: an observable collection is
\* represented by the sequence of CommutingObservableGroups it is grouped into.
ObservableCollection(observables) == [groups |-> observables]

\* decompose_qpd_instructions: a new circuit in which the gate at each
\* position of qpd_gate_ids[k] is replaced by alternative map_ids[k] of its
\* basis.
decompose_qpd_instructions(circ, qpd_gate_ids, map_ids) ==
    LET chosen(p) == {k \in DOMAIN qpd_gate_ids : qpd_gate_ids[k][1] + 1 = p}
    IN [circ EXCEPT !.data =
           [p \in DOMAIN circ.data |->
               IF chosen(p) = {} THEN circ.data[p]
               ELSE Inst("Decomposed", circ.data[p].basis, circ.data[p].label,
                         map_ids[CHOOSE k \in chosen(p) : TRUE], -1, -1, -1)]]

\* ----------------------------------------------------- coefficient engine
kappa_of(bases) == ProdSeq([k \in DOMAIN bases |-> bases[k].kappa])
total_redundancy(samples) == SumSeq([k \in DOMAIN samples |-> samples[k].redundancy])

\* sorted(random_samples.items(), key=redundancy, reverse=True): stable, so
\* equal redundancies keep the mapping's order.
RECURSIVE insert_descending(_, _)
insert_descending(s, e) ==
    IF s = << >> THEN <<e>>
    ELSE IF Head(s).redundancy >= e.redundancy
         THEN <<Head(s)>> \o insert_descending(Tail(s), e)
         ELSE <<e>> \o s
RECURSIVE insert_ascending(_, _)
insert_ascending(s, e) ==
    IF s = << >> THEN <<e>>
    ELSE IF Head(s).redundancy <= e.redundancy
         THEN <<Head(s)>> \o insert_ascending(Tail(s), e)
         ELSE <<e>> \o s
RECURSIVE fold_ascending(_, _)
fold_ascending(samples, acc) ==
    IF samples = << >> THEN acc
    ELSE fold_ascending(Tail(samples), insert_ascending(acc, Head(samples)))
RECURSIVE fold_descending(_, _)
fold_descending(samples, acc) ==
    IF samples = << >> THEN acc
    ELSE fold_descending(Tail(samples), insert_descending(acc, Head(samples)))

sorted_ascending_reversed(samples) ==
    LET up == fold_ascending(samples, << >>)
    IN [k \in 1..Len(up) |-> up[Len(up) + 1 - k]]
sorted_samples_of(samples) == fold_descending(samples, << >>)

actual_coeff_of(bases, map_ids) ==
    ProdSeq([k \in DOMAIN bases |-> bases[k].coeffs[map_ids[k] + 1]])

\* (redundancy / num_samples) * (kappa * np.sign(actual_coeff)) as a fraction.
sampled_coeff_with_magnitude(redundancy, num_samples, kappa, actual_coeff) ==
    [num |-> redundancy * kappa * actual_coeff, den |-> num_samples]
sampled_coeff(redundancy, num_samples, kappa, actual_coeff) ==
    [num |-> redundancy * kappa * Sign(actual_coeff), den |-> num_samples]

\* ------------------------------------------- generate_cutting_experiments
\* The three checks on the arguments, in order.
check_arguments_shapes_only(circuits_type, observables_type, num_samples) ==
    IF circuits_type = "QuantumCircuit" /\ observables_type # "PauliList" THEN "ValueError"
    ELSE IF circuits_type = "dict" /\ observables_type # "dict" THEN "ValueError"
    ELSE "None"
check_arguments(circuits_type, observables_type, num_samples) ==
    IF circuits_type = "QuantumCircuit" /\ observables_type # "PauliList" THEN "ValueError"
    ELSE IF circuits_type = "dict" /\ observables_type # "dict" THEN "ValueError"
    ELSE IF ~(num_samples >= 1) THEN "ValueError"
    ELSE "None"

\* Lines 137-163: the common representation of both input shapes.
collect(h, in) ==
    IF in.circuits_type = "QuantumCircuit"
    THEN LET b == get_bases(h[in.circuits].data, 1) IN
         [err |-> b.err,
          is_separated |-> FALSE,
          subcircuit_dict |-> "A" :> in.circuits,
          subsystem_observables |-> "A" :> ObservableCollection(in.observables),
          bases |-> b.bases,
          subcirc_qpd_gate_ids |-> "A" :> b.qpd_gate_ids,
          subcirc_map_ids |-> "A" :> << >>]
    ELSE LET m == get_mapping_ids_by_partition(h, in.circuits) IN
         [err |-> m.err,
          is_separated |-> TRUE,
          subcircuit_dict |-> in.circuits,
          subsystem_observables |->
              [label \in DOMAIN in.observables |-> ObservableCollection(in.observables[label])],
          bases |-> IF m.err = "None"
                    THEN get_bases_by_partition(h, in.circuits, m.subcirc_qpd_gate_ids)
                    ELSE << >>,
          subcirc_qpd_gate_ids |-> m.subcirc_qpd_gate_ids,
          subcirc_map_ids |-> m.subcirc_map_ids]

\* subexperiments_dict[label].append(meas_qc) on a defaultdict(list).
bucket_prepend(d, label, meas_qc) ==
    IF label \in DOMAIN d THEN [d EXCEPT ![label] = <<meas_qc>> \o @]
    ELSE d @@ (label :> <<meas_qc>>)
bucket_append(d, label, meas_qc) ==
    IF label \in DOMAIN d THEN [d EXCEPT ![label] = Append(@, meas_qc)]
    ELSE d @@ (label :> <<meas_qc>>)

\* Line 193: the call with the default inplace=False.
append_group_inplace(h, decomp_qc, cog) ==
    append_measurement_circuit(h, decomp_qc, cog, [is_none |-> TRUE, locs |-> << >>], TRUE)
append_group(h, decomp_qc, cog) ==
    append_measurement_circuit(h, decomp_qc, cog, [is_none |-> TRUE, locs |-> << >>], FALSE)

EmptyDict == [label \in {} |-> << >>]

\* Lines 192-194; acc is [heap, dict, decomposed].
RECURSIVE for_groups(_, _, _, _, _)
for_groups(acc, decomp_qc, groups, j, label) ==
    IF j > Len(groups) THEN [err |-> "None", acc |-> acc]
    ELSE LET r == append_group(acc.heap, decomp_qc, groups[j]) IN
         IF r.err # "None" THEN [err |-> r.err, acc |-> [acc EXCEPT !.heap = r.heap]]
         ELSE for_groups([acc EXCEPT !.heap = r.heap,
                                     !.dict = bucket_append(@, label, r.ref)],
                         decomp_qc, groups, j + 1, label)

\* Line 188: tuple(map_ids[j] for j in subcirc_map_ids[label]).
map_ids_in_range(map_ids, ids) == \A k \in DOMAIN ids : InRange(map_ids, ids[k])
restrict_map_ids(map_ids, ids) == [k \in DOMAIN ids |-> PyIndex(map_ids, ids[k])]

\* Lines 185-194 for labels[k..]; the resolved graph of each (sample, label)
\* is logged in acc.decomposed as built.
RECURSIVE for_labels(_, _, _, _, _)
for_labels(acc, col, map_ids, labels, k) ==
    IF k > Len(labels) THEN [err |-> "None", acc |-> acc]
    ELSE LET label == labels[k] IN
         IF label \notin DOMAIN col.subcircuit_dict THEN [err |-> "KeyError", acc |-> acc]
         ELSE IF col.is_separated /\ ~map_ids_in_range(map_ids, col.subcirc_map_ids[label])
         THEN [err |-> "IndexError", acc |-> acc]
         ELSE LET map_ids_tmp == IF col.is_separated
                                 THEN restrict_map_ids(map_ids, col.subcirc_map_ids[label])
                                 ELSE map_ids
                  decomp == decompose_qpd_instructions(
                                acc.heap[col.subcircuit_dict[label]],
                                col.subcirc_qpd_gate_ids[label], map_ids_tmp)
                  decomp_qc == Len(acc.heap) + 1
                  acc2 == [acc EXCEPT !.heap = Append(@, decomp),
                                      !.decomposed = Append(@, [ref |-> decomp_qc,
                                                                circuit |-> decomp])]
                  g == for_groups(acc2, decomp_qc,
                                  col.subsystem_observables[label].groups, 1, label)
              IN IF g.err # "None" THEN g
                 ELSE for_labels(g.acc, col, map_ids, labels, k + 1)

\* Lines 178-194 for sorted_samples[z..].
RECURSIVE for_samples(_, _, _, _)
for_samples(acc, col, sorted_samples, z) ==
    IF z > Len(sorted_samples) THEN [err |-> "None", acc |-> acc]
    ELSE LET l == for_labels(acc, col, sorted_samples[z].map_ids,
                             keys_in_order(DOMAIN col.subsystem_observables), 1)
         IN IF l.err # "None" THEN l
            ELSE for_samples(l.acc, col, sorted_samples, z + 1)

coefficients_of(bases, sorted_samples) ==
    LET kappa == kappa_of(bases)
        num_samples == total_redundancy(sorted_samples)
    IN [z \in DOMAIN sorted_samples |->
           [coeff |-> sampled_coeff(sorted_samples[z].redundancy, num_samples, kappa,
                                    actual_coeff_of(bases, sorted_samples[z].map_ids)),
            weight_type |-> sorted_samples[z].weight_type]]

Failed(err, h, tr) ==
    [err |-> err, heap |-> h, trace |-> tr, subexperiments |-> << >>,
     coefficients |-> << >>, bases |-> << >>, sorted_samples |-> << >>,
     decomposed |-> << >>]

generate_cutting_experiments(h, in, samples) ==
    LET checked == check_arguments(in.circuits_type, in.observables_type, in.num_samples) IN
    IF checked # "None" THEN Failed(checked, h, << >>)
    ELSE LET col == collect(h, in) IN
    IF col.err # "None" THEN Failed(col.err, h, <<"collect">>)
    ELSE LET sorted_samples == sorted_samples_of(samples)
             coefficients == coefficients_of(col.bases, sorted_samples)
             loop == for_samples([heap |-> h, dict |-> EmptyDict, decomposed |-> << >>],
                                 col, sorted_samples, 1)
         IN IF loop.err # "None"
            THEN Failed(loop.err, loop.acc.heap, <<"collect", "sample">>)
            ELSE IF in.circuits_type = "QuantumCircuit" /\ Cardinality(DOMAIN loop.acc.dict) # 1
            THEN Failed("AssertionError", loop.acc.heap, <<"collect", "sample">>)
            ELSE [err |-> "None", heap |-> loop.acc.heap, trace |-> <<"collect", "sample">>,
                  subexperiments |-> IF in.circuits_type = "QuantumCircuit"
                                     THEN loop.acc.dict["A"]
                                     ELSE loop.acc.dict,
                  coefficients |-> coefficients,
                  bases |-> col.bases,
                  sorted_samples |-> sorted_samples,
                  decomposed |-> loop.acc.decomposed]

\* ------------------------------ generate_distribution_cutting_experiments
RECURSIVE decompose_each(_, _, _, _, _)
decompose_each(h, circuit, qpd_gate_ids, sorted_samples, z) ==
    IF z > Len(sorted_samples) THEN [heap |-> h, subexperiments |-> << >>]
    ELSE LET decomp == decompose_qpd_instructions(h[circuit], qpd_gate_ids,
                                                  sorted_samples[z].map_ids)
             more == decompose_each(Append(h, decomp), circuit, qpd_gate_ids,
                                    sorted_samples, z + 1)
         IN [heap |-> more.heap, subexperiments |-> <<Len(h) + 1>> \o more.subexperiments]

generate_distribution_cutting_experiments(h, in, samples) ==
    IF ~(in.num_samples >= 1) THEN Failed("ValueError", h, << >>)
    ELSE LET b == get_bases(h[in.circuit].data, 1) IN
    IF b.err # "None" THEN Failed(b.err, h, <<"collect">>)
    ELSE LET sorted_samples == sorted_samples_of(samples)
             out == decompose_each(h, in.circuit, b.qpd_gate_ids, sorted_samples, 1)
         IN [err |-> "None", heap |-> out.heap, trace |-> <<"collect", "sample">>,
             subexperiments |-> out.subexperiments,
             coefficients |-> coefficients_of(b.bases, sorted_samples),
             bases |-> b.bases,
             sorted_samples |-> sorted_samples,
             decomposed |-> << >>]

\* ------------------------------------------------------------------ inputs
\* The circuits, observables and sampler mappings the calls are made with.
AllCogs(n) == {CommutingObservableGroup(x, z) : x \in [1..n -> BOOLEAN], z \in [1..n -> BOOLEAN]}

\* Circuits of MaxQubits or one qubit fewer, groups on MaxQubits sites, and
\* qubit_locations None or an injective list of either length whose entries
\* may name a qubit the circuit does not have.
AppendCircuits ==
    {Circuit(n, <<Gate>>, cregs) :
        n \in {MaxQubits - 1, MaxQubits},
        cregs \in {<< >>, <<ClassicalRegister(1, "c")>>,
                   <<ClassicalRegister(1, "observable_measurements")>>}}

QubitLocations ==
    {[is_none |-> TRUE, locs |-> << >>]}
    \cup {[is_none |-> FALSE, locs |-> l] :
            l \in {m \in UNION {[1..k -> 0..MaxQubits] : k \in {MaxQubits - 1, MaxQubits}} :
                      \A i, j \in DOMAIN m : i # j => m[i] # m[j]}}

AppendCalls ==
    {[input |-> [op |-> "_append_measurement_circuit", qc |-> 1, cog |-> g,
                 qubit_locations |-> l, inplace |-> b],
      heap |-> <<c>>, rich |-> FALSE] :
        c \in AppendCircuits, g \in AllCogs(MaxQubits), l \in QubitLocations, b \in BOOLEAN}

SecondBasis == [kappa |-> 3, coeffs |-> <<-2, 0, 1>>]

CutLabels == { <<"c", "_", "0">>, <<"c", "_", "1">>, <<"c", "_", "2">>,
               <<"c", "_", "-", "1">>, <<"c", "_", "x">>, NoneLabel }

\* The j-th MeasurementGroup of an observable collection; distinct for j = 1..4.
GroupCog(j) ==
    CommutingObservableGroup(<<j % 2 = 1, (j \div 2) % 2 = 1>>, <<TRUE, j % 3 = 0>>)
Groups(n) == [j \in 1..n |-> GroupCog(j)]

SingleInstrs ==
    {Gate} \cup {TwoQubitQPDGate(b) : b \in BasisPool}
           \cup {SingleQubitQPDGate(FirstBasis, <<"c", "_", "0">>)}
PartInstrs ==
    {Gate} \cup {SingleQubitQPDGate(FirstBasis, l) : l \in CutLabels}
           \cup {SingleQubitQPDGate(SecondBasis, <<"c", "_", "0">>)}

SingleCircuits == {Circuit(2, d, << >>) : d \in SeqsUpTo(SingleInstrs, MaxInstr)}
PartCircuits == {Circuit(2, d, << >>) : d \in SeqsUpTo(PartInstrs, MaxInstr)}
ShortPartCircuits == {Circuit(2, d, << >>) : d \in SeqsUpTo(PartInstrs, 1)}

OneCut == Circuit(2, <<Gate, TwoQubitQPDGate(SecondBasis)>>, << >>)
PartA == Circuit(2, <<SingleQubitQPDGate(SecondBasis, <<"c", "_", "0">>)>>, << >>)
PartB == Circuit(2, <<Gate, SingleQubitQPDGate(SecondBasis, <<"c", "_", "0">>)>>, << >>)

NumSamplesArgs == {0, 1, 1000}

GenInput(ctype, circuits, otype, observables, n) ==
    [op |-> "generate_cutting_experiments", circuits_type |-> ctype, circuits |-> circuits,
     observables_type |-> otype, observables |-> observables, num_samples |-> n]
DistInput(circuit, n) ==
    [op |-> "generate_distribution_cutting_experiments", circuit |-> circuit,
     num_samples |-> n]

BothParts == ("A" :> 1) @@ ("B" :> 2)

ObservableDicts ==
    {("A" :> Groups(n)) @@ ("B" :> Groups(m)) : n \in 0..MaxGroups, m \in {1, MaxGroups}}
OnlyAObservableDicts == {"A" :> Groups(n) : n \in 0..MaxGroups}
OneGroupEach == [l \in PartitionLabels |-> Groups(1)]

\* Calls are made in three families.  Collection: every circuit up to MaxInstr
\* instructions, one MeasurementGroup per partition (or observables for
\* partition A alone), a sampler mapping of one JointChoice drawn once.  Sampling (rich): one cut, every observable collection up to
\* MaxGroups groups, every sampler mapping up to MaxSamples JointChoices.  Arguments: every combination of argument
\* shapes and sample budgets.
SingleGraphCalls ==
    {[input |-> GenInput("QuantumCircuit", 1, ot, Groups(1), n),
      heap |-> <<c>>, rich |-> FALSE] :
        ot \in {"PauliList", "list"}, n \in NumSamplesArgs, c \in SingleCircuits}
    \cup {[input |-> GenInput("QuantumCircuit", 1, "PauliList", Groups(n), 1000),
           heap |-> <<OneCut>>, rich |-> TRUE] : n \in 1..MaxGroups}
SingleGraphDictObservablesCalls ==
    {[input |-> GenInput("QuantumCircuit", 1, "dict", OneGroupEach, n),
      heap |-> <<c>>, rich |-> FALSE] : n \in NumSamplesArgs, c \in SingleCircuits}
PartitionedCalls ==
    {[input |-> GenInput("dict", BothParts, "dict", OneGroupEach, 1000),
      heap |-> <<a, b>>, rich |-> FALSE] : a \in PartCircuits, b \in ShortPartCircuits}
    \cup {[input |-> GenInput("dict", BothParts, "dict", OneGroupEach, n),
           heap |-> <<PartA, PartB>>, rich |-> FALSE] : n \in NumSamplesArgs}
    \cup {[input |-> GenInput("dict", BothParts, "dict", o, 1000),
           heap |-> <<PartA, PartB>>, rich |-> TRUE] : o \in ObservableDicts}
    \cup {[input |-> GenInput("dict", BothParts, "dict", o, 1000),
           heap |-> <<PartA, PartB>>, rich |-> FALSE] : o \in OnlyAObservableDicts}
PartitionedOnlyACalls ==
    {[input |-> GenInput("dict", "A" :> 1, "dict", o, 1000),
      heap |-> <<PartA>>, rich |-> TRUE] : o \in {OneGroupEach}}
PartitionedListObservablesCalls ==
    {[input |-> GenInput("dict", BothParts, ot, Groups(1), n),
      heap |-> <<PartA, PartB>>, rich |-> FALSE] :
        ot \in {"PauliList", "list"}, n \in NumSamplesArgs}
DistributionCalls ==
    {[input |-> DistInput(1, n), heap |-> <<c>>, rich |-> FALSE] :
        n \in NumSamplesArgs, c \in SingleCircuits}
    \cup {[input |-> DistInput(1, 1000), heap |-> <<OneCut>>, rich |-> TRUE]}

\* ---------------------------------------------------------- Weight Sampler
\* generate_qpd_weights(bases, num_samples): a mapping from JointChoices (one
\* alternative index per basis) to (redundancy, weight type), as the sequence
\* of its items in the mapping's order.
JointChoices(bases) ==
    {c \in [1..Len(bases) -> 0..2] : \A k \in 1..Len(bases) : c[k] < Len(bases[k].coeffs)}
SampleRecords(bases, max_redundancy, kinds) ==
    {[map_ids |-> c, redundancy |-> r, weight_type |-> w] :
        c \in JointChoices(bases), r \in 1..max_redundancy, w \in kinds}
generate_qpd_weights(bases, max_entries, max_redundancy, kinds) ==
    {m \in UNION {[1..k -> SampleRecords(bases, max_redundancy, kinds)] : k \in 1..max_entries} :
        \A i, j \in DOMAIN m : i # j => m[i].map_ids # m[j].map_ids}

\* The bases the call hands to the sampler, if it gets that far.
sampler_call(h, in) ==
    IF in.op = "generate_cutting_experiments"
    THEN IF check_arguments(in.circuits_type, in.observables_type, in.num_samples) # "None"
         THEN [reached |-> FALSE, bases |-> << >>]
         ELSE LET col == collect(h, in) IN
              [reached |-> col.err = "None", bases |-> col.bases]
    ELSE IF in.op = "generate_distribution_cutting_experiments"
    THEN IF ~(in.num_samples >= 1) THEN [reached |-> FALSE, bases |-> << >>]
         ELSE LET b == get_bases(h[in.circuit].data, 1) IN
              [reached |-> b.err = "None", bases |-> b.bases]
    ELSE [reached |-> FALSE, bases |-> << >>]

\* ----------------------------------------------------------------- actions
Pending ==
    [err |-> "pending", ref |-> 0, subexperiments |-> << >>, coefficients |-> << >>,
     bases |-> << >>, sorted_samples |-> << >>, decomposed |-> << >>]

Start(c) ==
    /\ input = c.input
    /\ heap = c.heap
    /\ LET s == sampler_call(c.heap, c.input) IN
       IF s.reached
       THEN random_samples \in
                IF c.rich
                THEN generate_qpd_weights(s.bases, MaxSamples, MaxRedundancy,
                                          {"EXACT", "SAMPLED"})
                ELSE generate_qpd_weights(s.bases, 1, 1, {"SAMPLED"})
       ELSE random_samples = << >>

Init ==
    /\ pc = "call"
    /\ \/ \E c \in AppendCalls : Start(c)
       \/ \E c \in SingleGraphCalls : Start(c)
       \/ \E c \in SingleGraphDictObservablesCalls : Start(c)
       \/ \E c \in PartitionedCalls : Start(c)
       \/ \E c \in PartitionedOnlyACalls : Start(c)
       \/ \E c \in PartitionedListObservablesCalls : Start(c)
       \/ \E c \in DistributionCalls : Start(c)
    /\ result = Pending
    /\ trace = << >>

AppendMeasurementCircuit ==
    /\ pc = "call"
    /\ input.op = "_append_measurement_circuit"
    /\ \E r \in {append_measurement_circuit(heap, input.qc, input.cog,
                                           input.qubit_locations, input.inplace)} :
          /\ heap' = r.heap
          /\ result' = [Pending EXCEPT !.err = r.err, !.ref = r.ref]
    /\ pc' = "done"
    /\ UNCHANGED <<input, random_samples, trace>>

GenerateCuttingExperiments ==
    /\ pc = "call"
    /\ input.op = "generate_cutting_experiments"
    /\ \E r \in {generate_cutting_experiments(heap, input, random_samples)} :
          /\ heap' = r.heap
          /\ trace' = r.trace
          /\ result' = [err |-> r.err, ref |-> 0, subexperiments |-> r.subexperiments,
                        coefficients |-> r.coefficients, bases |-> r.bases,
                        sorted_samples |-> r.sorted_samples, decomposed |-> r.decomposed]
    /\ pc' = "done"
    /\ UNCHANGED <<input, random_samples>>

GenerateDistributionCuttingExperiments ==
    /\ pc = "call"
    /\ input.op = "generate_distribution_cutting_experiments"
    /\ \E r \in {generate_distribution_cutting_experiments(heap, input, random_samples)} :
          /\ heap' = r.heap
          /\ trace' = r.trace
          /\ result' = [err |-> r.err, ref |-> 0, subexperiments |-> r.subexperiments,
                        coefficients |-> r.coefficients, bases |-> r.bases,
                        sorted_samples |-> r.sorted_samples, decomposed |-> r.decomposed]
    /\ pc' = "done"
    /\ UNCHANGED <<input, random_samples>>

Next ==
    \/ AppendMeasurementCircuit
    \/ GenerateCuttingExperiments
    \/ GenerateDistributionCuttingExperiments

Spec == Init /\ [][Next]_vars

\* ------------------------------------------------------------- properties
Done == pc = "done"
Ok == result.err = "None"
IsGenerate == input.op = "generate_cutting_experiments"
IsDistribution == input.op = "generate_distribution_cutting_experiments"
IsAppend == input.op = "_append_measurement_circuit"
Partitioned == IsGenerate /\ input.circuits_type = "dict"
SingleGraph == IsGenerate /\ input.circuits_type = "QuantumCircuit"

\* The bucket of a partition label in the returned subexperiments (the flat
\* list for a single graph), the input graph and the groups it belongs to.
BucketLabels == IF Partitioned THEN DOMAIN result.subexperiments ELSE {"A"}
Bucket(L) == IF Partitioned THEN result.subexperiments[L] ELSE result.subexperiments
GraphOf(L) == IF Partitioned THEN heap[input.circuits[L]] ELSE heap[input.circuits]
GroupsOf(L) ==
    IF Partitioned
    THEN IF L \in DOMAIN input.observables THEN input.observables[L] ELSE << >>
    ELSE input.observables

MarkerPositions(circ) == {p \in DOMAIN circ.data : circ.data[p].op = "SingleQubitQPDGate"}
CutPositions(circ) == {p \in DOMAIN circ.data : circ.data[p].op = "TwoQubitQPDGate"}

\* The instructions the measurement of cog leaves at the end of a circuit
\* whose new register is the creg-th, with site s on qubit locs[s + 1].
Measured(cog) == {s \in 0..(cog.num_qubits - 1) : cog.x[s + 1] \/ cog.z[s + 1]}
Rotations(cog, s, q) ==
    IF cog.x[s + 1] /\ cog.z[s + 1] THEN <<Sdg(q), H(q)>>
    ELSE IF cog.x[s + 1] THEN <<H(q)>>
    ELSE << >>
RECURSIVE ExpectedMeasurement(_, _, _, _)
ExpectedMeasurement(cog, locs, creg, k) ==
    IF k >= Len(cog.pauli_indices) THEN << >>
    ELSE LET s == cog.pauli_indices[k + 1] IN
         Rotations(cog, s, locs[s + 1]) \o <<Measure(locs[s + 1], creg, k)>>
         \o ExpectedMeasurement(cog, locs, creg, k + 1)
IdentityLocations(cog) == [i \in 1..cog.num_qubits |-> i - 1]

\* C1: every partition label of a partitioned call that returns has a bucket
\* whose length is len(coefficients) times the number of its MeasurementGroups.
C1_BucketPerPartition ==
    (Done /\ Partitioned /\ Ok) =>
        \A L \in (DOMAIN input.circuits) \cup (DOMAIN input.observables) :
            /\ L \in DOMAIN result.subexperiments
            /\ Len(result.subexperiments[L]) = Len(result.coefficients) * Len(GroupsOf(L))

\* The alternative the code hands to the resolver for the gate at position p
\* of partition L under the z-th sorted JointChoice: by the position of the
\* gate among the graph's cuts (single graph), by the parsed id (partitioned).
HandedAlternative(L, p, z) ==
    LET map_ids == result.sorted_samples[z].map_ids IN
    IF Partitioned
    THEN PyIndex(map_ids, decomp_id_of(GraphOf(L).data[p].label))
    ELSE map_ids[Cardinality({q \in CutPositions(GraphOf(L)) : q <= p})]
QPDPositions(L) ==
    IF Partitioned THEN MarkerPositions(GraphOf(L)) ELSE CutPositions(GraphOf(L))
ResolvedData(L, z) ==
    [p \in DOMAIN GraphOf(L).data |->
        IF p \in QPDPositions(L)
        THEN [GraphOf(L).data[p] EXCEPT !.op = "Decomposed",
                                        !.basis_id = HandedAlternative(L, p, z)]
        ELSE GraphOf(L).data[p]]

\* C2: each subexperiment list is sample-major and group-minor: with G groups,
\* element z*G + j is the graph resolved with the z-th sorted JointChoice and
\* measured with the j-th group, and coefficients[z] comes from that same
\* JointChoice.
C2_SampleMajorGroupMinor ==
    (Done /\ IsGenerate /\ Ok) =>
        /\ Len(result.coefficients) = Len(result.sorted_samples)
        /\ \A L \in BucketLabels :
              LET G == Len(GroupsOf(L)) IN
              /\ Len(Bucket(L)) = Len(result.sorted_samples) * G
              /\ \A z \in 1..Len(result.sorted_samples) : \A j \in 1..G :
                    LET sub == heap[Bucket(L)[(z - 1) * G + j]] IN
                    /\ sub.data = ResolvedData(L, z)
                           \o ExpectedMeasurement(GroupsOf(L)[j],
                                                  IdentityLocations(GroupsOf(L)[j]), 1, 0)
                    /\ result.coefficients[z].weight_type
                           = result.sorted_samples[z].weight_type
                    /\ result.coefficients[z].coeff.num
                           = result.sorted_samples[z].redundancy * kappa_of(result.bases)
                             * Sign(actual_coeff_of(result.bases,
                                                    result.sorted_samples[z].map_ids))
C2_Witness ==
    /\ Done /\ Partitioned /\ Ok
    /\ Len(result.sorted_samples) >= 2
    /\ \E L \in BucketLabels : Len(GroupsOf(L)) >= 2
    /\ \E L \in BucketLabels : Len(GroupsOf(L)) = 1

\* C3: JointChoices are processed in non-increasing redundancy, equal
\* redundancies in the order of the sampler's mapping, and the coefficients
\* follow that order.
PositionIn(samples, map_ids) == CHOOSE k \in DOMAIN samples : samples[k].map_ids = map_ids
C3_DescendingStableOrder ==
    (Done /\ (IsGenerate \/ IsDistribution) /\ Ok) =>
        LET sorted == result.sorted_samples IN
        /\ Len(sorted) = Len(random_samples)
        /\ Range(sorted) = Range(random_samples)
        /\ \A k \in 1..(Len(sorted) - 1) : sorted[k].redundancy >= sorted[k + 1].redundancy
        /\ \A i, j \in DOMAIN random_samples :
              (i < j /\ random_samples[i].redundancy = random_samples[j].redundancy)
                  => PositionIn(sorted, random_samples[i].map_ids)
                         < PositionIn(sorted, random_samples[j].map_ids)
        /\ Len(result.coefficients) = Len(sorted)
        /\ \A z \in DOMAIN sorted :
              /\ result.coefficients[z].weight_type = sorted[z].weight_type
              /\ IsDistribution =>
                    heap[result.subexperiments[z]].data
                        = [p \in DOMAIN heap[input.circuit].data |->
                              IF p \in CutPositions(heap[input.circuit])
                              THEN [heap[input.circuit].data[p] EXCEPT
                                       !.op = "Decomposed",
                                       !.basis_id = sorted[z].map_ids[
                                           Cardinality({q \in CutPositions(heap[input.circuit]) :
                                                           q <= p})]]
                              ELSE heap[input.circuit].data[p]]
C3_Witness ==
    /\ Done /\ (IsGenerate \/ IsDistribution) /\ Ok
    /\ Len(random_samples) = 3
    /\ random_samples[1].redundancy < random_samples[2].redundancy
    /\ random_samples[1].redundancy = random_samples[3].redundancy

\* C4: every coefficient is (redundancy / N) * kappa_total * s with N the sum
\* of the returned redundancies, kappa_total the product of the bases' kappas
\* and s the sign of the product of the chosen alternatives' coefficients;
\* its weight kind is the sampler's.
NegativeChosen(bases, map_ids) ==
    {k \in DOMAIN bases : bases[k].coeffs[map_ids[k] + 1] < 0}
ZeroChosen(bases, map_ids) ==
    {k \in DOMAIN bases : bases[k].coeffs[map_ids[k] + 1] = 0}
SignOfChoice(bases, map_ids) ==
    IF ZeroChosen(bases, map_ids) # {} THEN 0
    ELSE IF Cardinality(NegativeChosen(bases, map_ids)) % 2 = 1 THEN -1
    ELSE 1
RECURSIVE KappaTotal(_, _)
KappaTotal(bases, k) == IF k > Len(bases) THEN 1 ELSE bases[k].kappa * KappaTotal(bases, k + 1)
RECURSIVE RedundancySum(_, _)
RedundancySum(samples, k) ==
    IF k > Len(samples) THEN 0 ELSE samples[k].redundancy + RedundancySum(samples, k + 1)
C4_CoefficientFormula ==
    (Done /\ (IsGenerate \/ IsDistribution) /\ Ok) =>
        /\ Len(result.coefficients) = Len(random_samples)
        /\ \A m \in DOMAIN random_samples :
              \E z \in DOMAIN result.coefficients :
                  LET c == result.coefficients[z]
                      N == RedundancySum(random_samples, 1)
                      s == SignOfChoice(result.bases, random_samples[m].map_ids)
                  IN /\ result.sorted_samples[z] = random_samples[m]
                     /\ c.coeff.den > 0
                     /\ c.coeff.num * N
                            = random_samples[m].redundancy * KappaTotal(result.bases, 1) * s
                              * c.coeff.den
                     /\ c.weight_type = random_samples[m].weight_type
C4_Witness ==
    /\ Done /\ IsGenerate /\ Ok
    /\ Len(random_samples) >= 2
    /\ input.num_samples # RedundancySum(random_samples, 1)
    /\ \E z \in DOMAIN result.coefficients : result.coefficients[z].coeff.num < 0
    /\ \E z \in DOMAIN result.coefficients : result.coefficients[z].coeff.num = 0
    /\ \E z \in DOMAIN result.coefficients :
          result.coefficients[z].weight_type # result.coefficients[1].weight_type

\* C5: in partitioned mode, for any distinct integer identities, the basis list
\* has one basis per identity in ascending order, every JointChoice one entry
\* per identity, and each one-party marker with identity c is resolved with
\* the JointChoice entry at the position of c in that order.
MarkerIds ==
    UNION {{decomp_id_of(GraphOf(L).data[p].label) : p \in MarkerPositions(GraphOf(L))} :
              L \in DOMAIN input.circuits}
RankOf(c) == Cardinality({d \in MarkerIds : d <= c})
BasesOfId(c) ==
    UNION {{GraphOf(L).data[p].basis :
               p \in {q \in MarkerPositions(GraphOf(L)) :
                         decomp_id_of(GraphOf(L).data[q].label) = c}} :
              L \in DOMAIN input.circuits}
C5_MarkersResolvedByIdentityRank ==
    (Done /\ Partitioned /\ "sample" \in Range(trace)) =>
        /\ result.err # "IndexError"
        /\ Ok =>
              /\ Len(result.bases) = Cardinality(MarkerIds)
              /\ \A c \in MarkerIds : result.bases[RankOf(c)] \in BasesOfId(c)
              /\ \A z \in DOMAIN result.sorted_samples :
                    /\ Len(result.sorted_samples[z].map_ids) = Cardinality(MarkerIds)
                    /\ \A L \in BucketLabels : \A p \in MarkerPositions(GraphOf(L)) :
                          \A j \in 1..Len(GroupsOf(L)) :
                              heap[Bucket(L)[(z - 1) * Len(GroupsOf(L)) + j]].data[p].basis_id
                                  = result.sorted_samples[z].map_ids[
                                        RankOf(decomp_id_of(GraphOf(L).data[p].label))]

\* C6: a call whose argument shapes do not match or whose num_samples is not
\* >= 1 raises ValueError before collecting or sampling and returns nothing.
ShapeMismatch ==
    \/ input.circuits_type = "QuantumCircuit" /\ input.observables_type # "PauliList"
    \/ input.circuits_type = "dict" /\ input.observables_type # "dict"
C6_InvalidArgumentsFailFirst ==
    (Done /\ \/ IsGenerate /\ (ShapeMismatch \/ ~(input.num_samples >= 1))
             \/ IsDistribution /\ ~(input.num_samples >= 1)) =>
        /\ result.err = "ValueError"
        /\ trace = << >>
        /\ result.subexperiments = << >>
        /\ result.coefficients = << >>
C6_Witness ==
    /\ Done /\ IsGenerate
    /\ ~ShapeMismatch
    /\ input.num_samples = 0
    /\ result.err = "ValueError"

\* C7: a single graph holding a one-party marker anywhere makes both
\* operations raise ValueError in collection, before sampling and before any
\* subexperiment is built.
SingleGraphInput == IF IsGenerate THEN heap[input.circuits] ELSE heap[input.circuit]
C7_OnePartyMarkerInSingleGraph ==
    (Done /\ (SingleGraph \/ IsDistribution) /\ MarkerPositions(SingleGraphInput) # {}) =>
        /\ result.err = "ValueError"
        /\ "sample" \notin Range(trace)
        /\ Len(heap) = 1
        /\ result.subexperiments = << >>
        /\ result.coefficients = << >>
        /\ (input.num_samples >= 1 /\ (IsGenerate => ~ShapeMismatch))
               => trace = <<"collect">>
C7_Witness ==
    /\ Done /\ SingleGraph
    /\ input.num_samples >= 1 /\ ~ShapeMismatch
    /\ Len(SingleGraphInput.data) = 2
    /\ SingleGraphInput.data[1].op = "TwoQubitQPDGate"
    /\ SingleGraphInput.data[2].op = "SingleQubitQPDGate"
    /\ result.err = "ValueError"

\* C8: with inplace=False the input circuit is the same after the call as
\* before, whether the call returns or raises, and what is returned is another
\* object, holding the new register and instructions.
C8_NotInPlaceLeavesInput ==
    [][(IsAppend /\ ~input.inplace) =>
          /\ heap'[input.qc] = heap[input.qc]
          /\ result'.err = "None" =>
                /\ result'.ref # input.qc
                /\ Len(heap'[result'.ref].cregs) = Len(heap[input.qc].cregs) + 1
                /\ SubSeq(heap'[result'.ref].data, 1, Len(heap[input.qc].data))
                       = heap[input.qc].data]_vars
C8_Witness ==
    /\ Done /\ IsAppend /\ ~input.inplace /\ Ok
    /\ Len(heap[result.ref].data) > Len(heap[input.qc].data)

\* C9: the append adds one register, last, of as many bits as the group
\* measures sites; the k-th measured site goes to bit k, after Sdg and H when
\* the site has an X and a Z component, after H alone when it has only X.
C9_CompactMeasurementRegister ==
    [][(IsAppend /\ result'.err = "None") =>
          LET before == heap[input.qc]
              after == heap'[result'.ref]
              locs == IF input.qubit_locations.is_none
                      THEN IdentityLocations(input.cog)
                      ELSE input.qubit_locations.locs
          IN /\ after.cregs
                    = before.cregs \o <<[name |-> "observable_measurements",
                                        size |-> Cardinality(Measured(input.cog))]>>
             /\ after.data
                    = before.data
                      \o ExpectedMeasurement(input.cog, locs, Len(before.cregs) + 1, 0)
             /\ Range(input.cog.pauli_indices) = Measured(input.cog)
             /\ \A k \in 1..(Len(input.cog.pauli_indices) - 1) :
                   input.cog.pauli_indices[k] < input.cog.pauli_indices[k + 1]]_vars
C9_Witness ==
    /\ Done /\ IsAppend /\ Ok
    /\ ~input.cog.x[1] /\ ~input.cog.z[1]
    /\ input.cog.x[2] /\ input.cog.z[2]
    /\ \E p \in DOMAIN heap[result.ref].data :
          heap[result.ref].data[p].op = "measure" /\ heap[result.ref].data[p].clbit = 0

\* C10: the resolved graph of one JointChoice and partition is built once and
\* never modified; every returned subexperiment is an object of its own with
\* exactly one measurement register, that of its own group.
ReturnedRefs == UNION {Range(Bucket(L)) : L \in BucketLabels}
ReturnedCount == SumSeq([k \in 1..Len(LabelOrder) |->
                           IF LabelOrder[k] \in BucketLabels
                           THEN Len(Bucket(LabelOrder[k])) ELSE 0])
C10_ResolvedGraphReusedUnmodified ==
    (Done /\ IsGenerate /\ Ok) =>
        /\ Len(result.decomposed)
               = Len(result.sorted_samples)
                 * (IF Partitioned THEN Cardinality(DOMAIN input.observables) ELSE 1)
        /\ \A d \in DOMAIN result.decomposed :
              /\ heap[result.decomposed[d].ref] = result.decomposed[d].circuit
              /\ result.decomposed[d].circuit.cregs = << >>
              /\ \A p \in DOMAIN result.decomposed[d].circuit.data :
                    result.decomposed[d].circuit.data[p].op # "measure"
              /\ result.decomposed[d].ref \notin ReturnedRefs
        /\ Cardinality(ReturnedRefs) = ReturnedCount
        /\ \A L \in BucketLabels : \A n \in DOMAIN Bucket(L) :
              LET sub == heap[Bucket(L)[n]]
                  G == Len(GroupsOf(L))
                  cog == GroupsOf(L)[((n - 1) % G) + 1]
              IN /\ sub.cregs = <<[name |-> "observable_measurements",
                                   size |-> Cardinality(Measured(cog))]>>
                 /\ Cardinality({p \in DOMAIN sub.data : sub.data[p].op = "measure"})
                        = Cardinality(Measured(cog))
                 /\ SubSeq(sub.data, Len(GraphOf(L).data) + 1, Len(sub.data))
                        = ExpectedMeasurement(cog, IdentityLocations(cog), 1, 0)
C10_Witness ==
    /\ Done /\ Partitioned /\ Ok
    /\ Len(result.sorted_samples) >= 2
    /\ \A L \in {"A", "B"} : L \in BucketLabels /\ Len(GroupsOf(L)) = 2
====
